---------------------------- MODULE Spec2Model ----------------------------
(* A state-machine model of the HoldersForm component                      *)
(* (src/src/components/HoldersForm.tsx): the form's row array, the token   *)
(* lookups in flight, the token-details list held by the parent, and the   *)
(* callbacks each handler calls.                                           *)
EXTENDS Naturals, Sequences, FiniteSets

VARIABLES
    formData,           \* the form's rows (react-hook-form values, `formData`)
    tokenDetailsList,   \* the parent's prop of that name
    isBalancesFetching, \* the parent's prop of that name
    lookups,            \* fetchTokenData calls awaiting their response
    done,               \* history: the lookups whose response has arrived, in arrival order
    issued,             \* history: number of lookups issued so far
    nEdits,             \* history: number of user edits so far
    last                \* what the last handler did (callbacks, toasts, requests)

vars == <<formData, tokenDetailsList, isBalancesFetching, lookups, done, issued, nEdits, last>>

-----------------------------------------------------------------------------
(* Bounds of the model. *)

\* lookups issued in one run
MaxLookups == 2
\* user edits in one run
MaxEdits == 3

-----------------------------------------------------------------------------
(* Values. *)

\* The values typed into a token-id field: empty, two well-formed ids, one malformed.
TokenIds == {"", "0.0.1", "0.0.2", "abc"}

\* The values typed into the min-amount field.
MinAmounts == {"", "5"}

\* The values an <input type="number"> delivers for the duration.
NumberStrings == {"7"}

\* The days the calendar offers.
CalendarDays == {"2024-05-01"}

DurationTypes == {"days", "weeks", "months"}

\* duration?: string | Date
StringValue(s) == [kind |-> "string", v |-> s]

DateValue(d) == [kind |-> "Date", v |-> d]

UndefinedValue == [kind |-> "undefined", v |-> ""]

\* dictionary.wrongTokenId
wrongTokenId == "wrongTokenId"

\* The mirror node's answer for a token id: name and type.
TokenDetails(tokenId) ==
    IF tokenId = "0.0.1"
    THEN [token_id |-> tokenId, name |-> "Alpha", type |-> "FUNGIBLE_COMMON"]
    ELSE [token_id |-> tokenId, name |-> "Beta", type |-> "NON_FUNGIBLE_UNIQUE"]

\* How a lookup can end: a parsed body, fetch() rejecting, a non-OK status, json() throwing.
Outcomes == {"ok", "rejected", "httpError", "badBody"}

isValidTokenId(tokenId) == tokenId \in {"0.0.1", "0.0.2"}

\* The fields the user edits through the form's widgets.
UserFields == {"tokenId", "minAmount", "isDurationSelect", "duration", "durationType"}

defaultValues ==
    << [tokenId |-> "", minAmount |-> "", tokenName |-> "", isNFT |-> FALSE,
        isDurationSelect |-> FALSE, duration |-> StringValue(""),
        isCollapsed |-> FALSE, durationType |-> "days"] >>

Range(s) == {s[k] : k \in DOMAIN s}

RemoveAt(s, k) == [j \in 1..(Len(s) - 1) |-> IF j < k THEN s[j] ELSE s[j + 1]]

\* A callback call: the callback and its argument (a list or a flag).
Call(fn, list, flag) == [fn |-> fn, list |-> list, flag |-> flag]

NoStep == [op |-> "init", index |-> 0, calls |-> <<>>, toasts |-> 0, fetches |-> 0,
           pos |-> 0, outcome |-> "", valid |-> FALSE]

-----------------------------------------------------------------------------
(* The component's functions. *)

\* setValue / field.onChange on one field of one row
setValue(fd, index, name, value) == [fd EXCEPT ![index][name] = value]

\* update(index, row) of useFieldArray
update(fd, index, row) == [fd EXCEPT ![index] = row]

\* mutant: the response's type is ignored and the row keeps its isNFT
SuccessRow_KeepsIsNFT(snapshot, data) ==
    [tokenId |-> snapshot.tokenId,
     minAmount |-> snapshot.minAmount,
     tokenName |-> data.name,
     isNFT |-> snapshot.isNFT,
     isDurationSelect |-> snapshot.isDurationSelect,
     duration |-> snapshot.duration,
     isCollapsed |-> snapshot.isCollapsed,
     durationType |-> snapshot.durationType]

\* the row written by fetchTokenData after a parsed response
SuccessRow(snapshot, data) ==
    [tokenId |-> snapshot.tokenId,
     minAmount |-> snapshot.minAmount,
     tokenName |-> data.name,
     isNFT |-> (data.type = "NON_FUNGIBLE_UNIQUE"),
     isDurationSelect |-> snapshot.isDurationSelect,
     duration |-> snapshot.duration,
     isCollapsed |-> snapshot.isCollapsed,
     durationType |-> snapshot.durationType]

\* mutant: the catch block resets isNFT
FailureRow_ClearsIsNFT(snapshot) ==
    [tokenId |-> snapshot.tokenId,
     minAmount |-> snapshot.minAmount,
     tokenName |-> wrongTokenId,
     isNFT |-> FALSE,
     isDurationSelect |-> snapshot.isDurationSelect,
     duration |-> snapshot.duration,
     isCollapsed |-> snapshot.isCollapsed,
     durationType |-> snapshot.durationType]

\* the row written by fetchTokenData's catch block
FailureRow(snapshot) ==
    [tokenId |-> snapshot.tokenId,
     minAmount |-> snapshot.minAmount,
     tokenName |-> wrongTokenId,
     isNFT |-> snapshot.isNFT,
     isDurationSelect |-> snapshot.isDurationSelect,
     duration |-> snapshot.duration,
     isCollapsed |-> snapshot.isCollapsed,
     durationType |-> snapshot.durationType]

\* tokenDetailsList ? [...tokenDetailsList, data] : [data], on the list the closure holds
NextTokenDetailsList(closureList, data) ==
    IF closureList.defined
    THEN [defined |-> TRUE, items |-> Append(closureList.items, data)]
    ELSE [defined |-> TRUE, items |-> <<data>>]

\* fetchTokenData from the response on: the rows, the callbacks called, the toasts raised
fetchTokenData(fd, q, outcome) ==
    IF outcome = "ok"
    THEN LET data == TokenDetails(q.tokenId)
             list == NextTokenDetailsList(q.tokenDetailsList, data)
         IN  [formData |-> update(fd, q.index, SuccessRow(q.formData, data)),
              calls |-> << Call("setTokenDetailsList", list.items, FALSE) >>,
              list |-> list, stored |-> TRUE, toasts |-> 0, threw |-> FALSE]
    ELSE [formData |-> update(fd, q.index, FailureRow(q.formData)),
          calls |-> <<>>,
          list |-> q.tokenDetailsList, stored |-> FALSE, toasts |-> 1, threw |-> FALSE]

\* mutant: the blur handler fetches for any non-empty value
ShouldLookup_NonEmptyOnly(tokenId) == tokenId # ""

\* the condition under which handleTokenIdBlur fetches
ShouldLookup(tokenId) == tokenId # "" /\ isValidTokenId(tokenId)

\* mutant: || in place of && in handleTokenIdChange's condition
handleTokenIdChange_Or(fd, tokenId, index) ==
    IF tokenId = "" \/ ~isValidTokenId(tokenId)
    THEN update(fd, index, [fd[index] EXCEPT !.tokenName = ""])
    ELSE fd

\* handleTokenIdChange, run after field.onChange has stored the typed value
handleTokenIdChange(fd, tokenId, index) ==
    IF tokenId = "" /\ ~isValidTokenId(tokenId)
    THEN update(fd, index, [fd[index] EXCEPT !.tokenName = ""])
    ELSE fd

\* mutant: setShouldFetch is called before setData
onSubmit_FetchBeforeReset(data) ==
    << Call("setFormData", data, FALSE),
       Call("setShouldFetch", <<>>, TRUE),
       Call("setData", <<>>, FALSE) >>

\* onSubmit: the callbacks, in the order called
onSubmit(data) ==
    << Call("setFormData", data, FALSE),
       Call("setData", <<>>, FALSE),
       Call("setShouldFetch", <<>>, TRUE) >>

\* mutant: the switch does not reset the duration
onCheckedChange_KeepsDuration(fd, index, newCheckedState) ==
    setValue(fd, index, "isDurationSelect", newCheckedState)

\* the Switch's onCheckedChange
onCheckedChange(fd, index, newCheckedState) ==
    setValue(setValue(fd, index, "isDurationSelect", newCheckedState),
             index, "duration", StringValue(""))

\* mutant: the submit button is rendered whatever isBalancesFetching is
SubmitButtonRendered_Always == TRUE

\* the footer renders the submit button or the progress bar
SubmitButtonRendered == ~isBalancesFetching

SubmitButtonDisabled == isBalancesFetching

\* the duration widgets of a row are rendered
\* (the wrapper's visible/hidden class on isCollapsed is styling: the widgets and
\* their handlers are mounted whenever the row is an NFT's)
DurationRendered(index) == formData[index].isNFT

-----------------------------------------------------------------------------
(* The state machine. *)

Init ==
    /\ formData = defaultValues
    /\ tokenDetailsList \in {[defined |-> FALSE, items |-> <<>>],
                             [defined |-> TRUE, items |-> <<>>]}
    /\ isBalancesFetching \in BOOLEAN
    /\ lookups = <<>>
    /\ done = <<>>
    /\ issued = 0
    /\ nEdits = 0
    /\ last = NoStep

\* The lookups in flight for a row learn which of its fields the user edited.
NoteEdit(index, names) ==
    /\ nEdits < MaxEdits
    /\ nEdits' = nEdits + 1
    /\ lookups' = [k \in DOMAIN lookups |->
                     IF lookups[k].index = index
                     THEN [lookups[k] EXCEPT !.edited = @ \cup names]
                     ELSE lookups[k]]
    /\ UNCHANGED <<tokenDetailsList, isBalancesFetching, done, issued>>

\* The token-id Input's onChange: field.onChange, then handleTokenIdChange.
TokenIdInput(index, value) ==
    /\ value # formData[index].tokenId
    /\ NoteEdit(index, {"tokenId"})
    /\ formData' = handleTokenIdChange(setValue(formData, index, "tokenId", value), value, index)
    /\ last' = [NoStep EXCEPT !.op = "tokenIdChange", !.index = index]

\* The min-amount Input's onChange.
MinAmountInput(index, value) ==
    /\ value # formData[index].minAmount
    /\ NoteEdit(index, {"minAmount"})
    /\ formData' = setValue(formData, index, "minAmount", value)
    /\ last' = [NoStep EXCEPT !.op = "minAmountChange", !.index = index]

\* The Switch between calendar and number of days/weeks/months.
SwitchToggle(index) ==
    /\ DurationRendered(index)
    /\ NoteEdit(index, {"isDurationSelect", "duration"})
    /\ formData' = onCheckedChange(formData, index, ~formData[index].isDurationSelect)
    /\ last' = [NoStep EXCEPT !.op = "switch", !.index = index]

\* The duration's number Input.
DurationInput(index, value) ==
    /\ DurationRendered(index)
    /\ formData[index].isDurationSelect
    /\ StringValue(value) # formData[index].duration
    /\ NoteEdit(index, {"duration"})
    /\ formData' = setValue(formData, index, "duration", StringValue(value))
    /\ last' = [NoStep EXCEPT !.op = "durationChange", !.index = index]

\* The duration type's Select.
DurationTypeSelect(index, value) ==
    /\ DurationRendered(index)
    /\ formData[index].isDurationSelect
    /\ value # formData[index].durationType
    /\ NoteEdit(index, {"durationType"})
    /\ formData' = setValue(formData, index, "durationType", value)
    /\ last' = [NoStep EXCEPT !.op = "durationTypeChange", !.index = index]

\* The value the single-mode calendar hands to onSelect when a day is clicked:
\* the day, or undefined when the day clicked is the selected one.
CalendarSelection(current, day) ==
    IF current = DateValue(day) THEN UndefinedValue ELSE DateValue(day)

\* The Calendar's onSelect.
CalendarSelect(index, day) ==
    /\ DurationRendered(index)
    /\ ~formData[index].isDurationSelect
    /\ NoteEdit(index, {"duration"})
    /\ formData' = setValue(formData, index, "duration",
                            CalendarSelection(formData[index].duration, day))
    /\ last' = [NoStep EXCEPT !.op = "calendarSelect", !.index = index]

\* The token-id Input's onBlur: handleTokenIdBlur up to the await of fetch().
\* The value blurred is the row's stored tokenId (the Input is controlled by the
\* field); getValues().formData[index] is taken as the row's values at this moment,
\* and tokenDetailsList as the prop of the render the handler belongs to.
TokenIdBlur(index) ==
    /\ issued < MaxLookups
    /\ LET tokenId == formData[index].tokenId
       IN  IF ShouldLookup(tokenId)
           THEN /\ lookups' = Append(lookups,
                       [id |-> issued + 1, index |-> index, tokenId |-> tokenId,
                        formData |-> formData[index],
                        tokenDetailsList |-> tokenDetailsList,
                        edited |-> {}, editsAtBlur |-> nEdits,
                        overlap |-> {lookups[k].id : k \in {j \in DOMAIN lookups :
                                                           lookups[j].index = index}}])
                /\ issued' = issued + 1
                /\ last' = [NoStep EXCEPT !.op = "blur", !.index = index, !.fetches = 1]
           ELSE /\ UNCHANGED <<lookups, issued>>
                /\ last' = [NoStep EXCEPT !.op = "blur", !.index = index]
    /\ UNCHANGED <<formData, tokenDetailsList, isBalancesFetching, done, nEdits>>

\* The response of the lookup at position pos arrives: the rest of fetchTokenData
\* and of handleTokenIdBlur. The parent stores the list handed to setTokenDetailsList.
LookupCompletes(pos, outcome) ==
    /\ pos \in DOMAIN lookups
    /\ LET q == lookups[pos]
           r == fetchTokenData(formData, q, outcome)
       IN  /\ formData' = r.formData
           /\ tokenDetailsList' = IF r.stored THEN r.list ELSE tokenDetailsList
           /\ done' = Append(done, [id |-> q.id, index |-> q.index, tokenId |-> q.tokenId,
                                    ok |-> (outcome = "ok"), overlap |-> q.overlap,
                                    editsAtBlur |-> q.editsAtBlur])
           /\ last' = [NoStep EXCEPT !.op = "response", !.index = q.index,
                                     !.calls = r.calls,
                                     !.toasts = r.toasts + (IF r.threw THEN 1 ELSE 0),
                                     !.pos = pos, !.outcome = outcome]
    /\ lookups' = RemoveAt(lookups, pos)
    /\ UNCHANGED <<isBalancesFetching, issued, nEdits>>

\* A click on the submit button: handleSubmit validates the rows against the schema
\* and calls onSubmit with them when they pass.
Submit(valid) ==
    /\ SubmitButtonRendered
    /\ ~SubmitButtonDisabled
    /\ last' = [NoStep EXCEPT !.op = "submit", !.valid = valid,
                              !.calls = IF valid THEN onSubmit(formData) ELSE <<>>]
    /\ UNCHANGED <<formData, tokenDetailsList, isBalancesFetching, lookups, done, issued, nEdits>>

\* The parent renders the form with another isBalancesFetching.
ParentRender ==
    /\ isBalancesFetching' = ~isBalancesFetching
    /\ last' = [NoStep EXCEPT !.op = "render"]
    /\ UNCHANGED <<formData, tokenDetailsList, lookups, done, issued, nEdits>>

Next ==
    \/ \E index \in DOMAIN formData, value \in TokenIds : TokenIdInput(index, value)
    \/ \E index \in DOMAIN formData, value \in MinAmounts : MinAmountInput(index, value)
    \/ \E index \in DOMAIN formData : SwitchToggle(index)
    \/ \E index \in DOMAIN formData, value \in NumberStrings \cup {""} : DurationInput(index, value)
    \/ \E index \in DOMAIN formData, value \in DurationTypes : DurationTypeSelect(index, value)
    \/ \E index \in DOMAIN formData, day \in CalendarDays : CalendarSelect(index, day)
    \/ \E index \in DOMAIN formData : TokenIdBlur(index)
    \/ \E pos \in DOMAIN lookups, outcome \in Outcomes : LookupCompletes(pos, outcome)
    \/ \E valid \in BOOLEAN : Submit(valid)
    \/ ParentRender

Spec == Init /\ [][Next]_vars

-----------------------------------------------------------------------------
(* The properties. A step is recognised by what it leaves in `last`. *)

FailureOutcomes == Outcomes \ {"ok"}

\* C1: a submit whose validation passes calls setFormData with exactly the current
\* rows, then setData with the empty list, then setShouldFetch(true), each once and
\* in that order; a submit whose validation fails calls none of them.
C1_SubmitCallsCallbacks ==
    last.op = "submit" =>
        IF last.valid
        THEN last.calls = << Call("setFormData", formData, FALSE),
                             Call("setData", <<>>, FALSE),
                             Call("setShouldFetch", <<>>, TRUE) >>
        ELSE last.calls = <<>>

C1_Witness ==
    /\ last.op = "submit"
    /\ last.valid
    /\ Len(last.calls) = 3
    /\ formData[1].tokenName = "Alpha"
    /\ formData[1].minAmount = "5"

\* C2: a blur issues exactly one lookup when the field's value is non-empty and
\* isValidTokenId accepts it, whether or not the token was looked up before, and
\* otherwise issues none and changes no state; the arrival of a failed lookup's
\* response issues no request.
C2_OneLookupPerBlur ==
    [][ /\ last'.op = "blur" =>
             LET tokenId == formData[last'.index].tokenId
             IN  IF tokenId # "" /\ isValidTokenId(tokenId)
                 THEN /\ last'.fetches = 1
                      /\ Len(lookups') = Len(lookups) + 1
                      /\ lookups'[Len(lookups')].tokenId = tokenId
                      /\ \A k \in DOMAIN lookups : lookups'[k] = lookups[k]
                 ELSE /\ last'.fetches = 0
                      /\ last'.calls = <<>>
                      /\ last'.toasts = 0
                      /\ UNCHANGED <<formData, tokenDetailsList, isBalancesFetching, lookups>>
        /\ (last'.op = "response" /\ last'.outcome \in FailureOutcomes) =>
             /\ last'.fetches = 0
             /\ lookups' = RemoveAt(lookups, last'.pos)
      ]_vars

C2_Witness ==
    /\ last.op = "blur"
    /\ last.fetches = 1
    /\ \E d \in Range(done) : d.tokenId = lookups[Len(lookups)].tokenId

\* C3: the arrival of a parsed response for a row sets the row's tokenName to the
\* returned name and its isNFT to whether the returned type is NON_FUNGIBLE_UNIQUE,
\* changes no other row and not the number of rows; with no user edit since the
\* blur the row's other fields are those it had at the blur, and they are those it
\* had just before the response when no older lookup of the row was in flight.
C3_SuccessEnrichesRow ==
    [][ (last'.op = "response" /\ last'.outcome = "ok") =>
            LET q == lookups[last'.pos]
                data == TokenDetails(q.tokenId)
                others == {"tokenId", "minAmount", "isDurationSelect", "duration",
                           "durationType", "isCollapsed"}
            IN  /\ formData'[q.index].tokenName = data.name
                /\ formData'[q.index].isNFT = (data.type = "NON_FUNGIBLE_UNIQUE")
                /\ Len(formData') = Len(formData)
                /\ \A j \in DOMAIN formData : j # q.index => formData'[j] = formData[j]
                /\ nEdits = q.editsAtBlur =>
                      /\ \A f \in others : formData'[q.index][f] = q.formData[f]
                      /\ q.overlap = {} =>
                            \A f \in others : formData'[q.index][f] = formData[q.index][f]
      ]_vars

C3_Witness ==
    /\ last.op = "response"
    /\ last.outcome = "ok"
    /\ formData[1].tokenId = "0.0.2"
    /\ formData[1].tokenName = "Beta"
    /\ formData[1].isNFT
    /\ formData[1].minAmount = "5"
    /\ done[Len(done)].editsAtBlur = nEdits

C6_NoDetailsLost ==
    lookups = <<>> =>
        \A d \in Range(done) :
            d.ok => TokenDetails(d.tokenId) \in Range(tokenDetailsList.items)

\* The lookup blurred last among those that have completed.
LatestDone == CHOOSE d \in Range(done) : \A e \in Range(done) : e.id <= d.id

\* C7: when a lookup for token id B was blurred while a lookup of the same row for
\* another token id A was in flight, then once both responses have arrived (in
\* either order, B's parsed, no edit since B's blur) the row's tokenId is B and its
\* tokenName and isNFT are those returned for B.
C7_LatestLookupWins ==
    (lookups = <<>> /\ done # <<>>) =>
        LET b == LatestDone
        IN  ( /\ b.ok
              /\ b.editsAtBlur = nEdits
              /\ \E a \in Range(done) : /\ a.id \in b.overlap
                                        /\ a.index = b.index
                                        /\ a.tokenId # b.tokenId ) =>
                /\ formData[b.index].tokenId = b.tokenId
                /\ formData[b.index].tokenName = TokenDetails(b.tokenId).name
                /\ formData[b.index].isNFT = (TokenDetails(b.tokenId).type = "NON_FUNGIBLE_UNIQUE")

\* C8: typing into a row's token-id field stores the typed value; beyond that,
\* handleTokenIdChange sets the row's tokenName to the empty string when the typed
\* value is empty and changes nothing for any non-empty value, valid or not; no
\* other row changes.
C8_ChangeClearsNameOnlyWhenEmpty ==
    [][ last'.op = "tokenIdChange" =>
            LET index == last'.index
                typed == formData'[index].tokenId
            IN  /\ \A j \in DOMAIN formData : j # index => formData'[j] = formData[j]
                /\ Len(formData') = Len(formData)
                /\ formData'[index] =
                      IF typed = ""
                      THEN [formData[index] EXCEPT !.tokenId = typed, !.tokenName = ""]
                      ELSE [formData[index] EXCEPT !.tokenId = typed]
      ]_vars

C8_Witness ==
    /\ last.op = "tokenIdChange"
    /\ formData[1].tokenId = "0.0.2"
    /\ formData[1].tokenName = "Alpha"

\* C9: while isBalancesFetching is true the submit button is not rendered, so no
\* submit, and no setShouldFetch call, happens then; while it is false the button
\* is rendered and enabled.
C9_NoSubmitWhileFetching ==
    /\ isBalancesFetching => ~SubmitButtonRendered
    /\ ~isBalancesFetching => (SubmitButtonRendered /\ ~SubmitButtonDisabled)
    /\ last.op = "submit" => ~isBalancesFetching
    /\ (\E k \in DOMAIN last.calls : last.calls[k].fn = "setShouldFetch") => ~isBalancesFetching

C9_Witness ==
    /\ isBalancesFetching
    /\ ~SubmitButtonRendered
    /\ last.op = "render"
    /\ formData[1].tokenName = "Alpha"

\* C10 as stated: in number mode the duration is the empty string or a typed number
\* string, in calendar mode it is the empty string or a Date.
C10_DurationAgreesWithMode ==
    \A index \in DOMAIN formData :
        IF formData[index].isDurationSelect
        THEN formData[index].duration \in {StringValue(s) : s \in NumberStrings \cup {""}}
        ELSE \/ formData[index].duration = StringValue("")
             \/ formData[index].duration.kind = "Date"

\* C10 as amended: in number mode the duration is the empty string or a typed number
\* string, in calendar mode it is the empty string, a Date, or undefined (the
\* selected day clicked again).
C10_DurationAgreesWithModeOrUndefined ==
    \A index \in DOMAIN formData :
        IF formData[index].isDurationSelect
        THEN formData[index].duration \in {StringValue(s) : s \in NumberStrings \cup {""}}
        ELSE \/ formData[index].duration = StringValue("")
             \/ formData[index].duration.kind = "Date"
             \/ formData[index].duration = UndefinedValue

C10_Witness ==
    /\ last.op = "response"
    /\ formData[1].isNFT
    /\ ~formData[1].isDurationSelect
    /\ formData[1].duration.kind = "Date"
    /\ nEdits > done[Len(done)].editsAtBlur

=============================================================================
